---- MODULE Spec2Model ----
(***************************************************************************)
(* The two data-fetching scripts of backtest-scripts/:                     *)
(*   fetch_historical_data.py          (OKX, backward pagination)          *)
(*   fetch_historical_data_binance.py  (Binance, forward pagination)       *)
(* One behaviour is one call of one fetch function, or one run of main     *)
(* (SpecMain).  The provider is the environment: in SpecOkx, SpecBinance,  *)
(* SpecPrices and SpecSentiment it may answer a request with any page or   *)
(* any failure; in SpecHonest it holds a fixed set of candles and answers  *)
(* as the provider's paging contract says.                                 *)
(*                                                                         *)
(* Time is counted in ticks.  The program's constants are scaled down so   *)
(* that their cases are reachable: an hour is HourMs ticks (3 600 000 ms   *)
(* in the source), a second is MsPerSec ticks (1000 ms), a chunk is        *)
(* chunk_hours hours (100), a page holds at most okx_limit (100) or        *)
(* max_candles_per_request (1000) candles.  The relations between them     *)
(* that the code relies on are kept: chunk_hours = okx_limit, and the page *)
(* span of the forward fetch is max_candles_per_request hours.             *)
(***************************************************************************)
EXTENDS Integers, Sequences, FiniteSets, TLC

\* ---------------------------------------------------------------- constants
\* 60 * 60 * 1000, the milliseconds of an hour (scaled)
HourMs == 2
\* the 1000 of `timestamp / 1000`: milliseconds of a second (scaled)
MsPerSec == 2
\* chunk_hours = 100 (scaled)
chunk_hours == 2
\* 'limit': 100 of the OKX request (scaled)
okx_limit == 2
\* max_candles_per_request = 1000 (scaled)
max_candles_per_request == 2

\* ---------------------------------------------------------------- bounds
\* timestamps the provider may put in a candle: 0..MaxStamp
MaxStamp == 6
\* non-empty pages one call may receive from a provider under no contract
\* before the exploration is cut
MaxPages == 2
\* items the sentiment provider may return (the `limit={days}` of the request)
MaxItems == 3

Stamps == 0..MaxStamp
\* a field 0 that int() cannot parse
BadField == 0 - 1

Min(a, b) == IF a < b THEN a ELSE b
Max(a, b) == IF a > b THEN a ELSE b

\* ---------------------------------------------------------------- state
VARIABLES
    fn,                \* the function called: "okx", "binance", "fg_okx",
                       \* "fg_binance", "main_okx", "main_binance"
    symbol,            \* the symbol the prices are fetched for
    utc_offset,        \* local time minus UTC on the machine, in ticks
    provider,          \* "any": answers anything; "honest": answers from held
    held,              \* the open times of the candles an honest provider holds
    pc,                \* "outer", "inner", "loop", "call", "symbols", "done",
                       \* "raised"
    start_ts, end_ts,  \* fetch_okx_historical_data: the window
    current_end_ts, current_start_ts, current_ts, chunk_data,
    chunks,            \* the chunks entered so far: bounds and first request
    start_ms, end_ms,  \* fetch_binance_historical_data: the window
    current_start_ms,
    all_data,          \* the accumulation list of either price fetcher
    result,            \* the value returned (set when pc = "done")
    log,               \* one entry per HTTP request issued, in order
    slept,             \* a time.sleep ran since the last request
    received,          \* candles received so far (numbers the close prices)
    symbols,           \* main: args.symbols
    fetched,           \* main: the price_data of each symbol handled so far
    files              \* main: the files written, by name

vars == <<fn, symbol, utc_offset, provider, held, pc, start_ts, end_ts,
          current_end_ts, current_start_ts, current_ts, chunk_data, chunks,
          start_ms, end_ms, current_start_ms, all_data, result, log, slept,
          received, symbols, fetched, files>>

okxVars == <<start_ts, end_ts, current_end_ts, current_start_ts, current_ts,
             chunk_data, chunks>>
binanceVars == <<start_ms, end_ms, current_start_ms>>
mainVars == <<symbols, fetched, files>>
callVars == <<fn, symbol, utc_offset, provider, held, mainVars>>

\* ---------------------------------------------------------------- timestamps
\* datetime.fromtimestamp(timestamp / 1000).isoformat() + 'Z'
\* The string is "YYYY-MM-DDTHH:MM:SS" followed by ".ffffff" only when the
\* microseconds are not zero, then "Z".  It is modelled by the pair
\* <<whole seconds, sub-second part>>; a sub-second part of 0 is the string
\* without the ".ffffff" suffix.  fromtimestamp() is called without a tz
\* argument: the fields are those of the machine's local time, utc_offset
\* ticks ahead of UTC (taken as constant over the stamps).
IsoFormat(ms) ==
    <<(ms + utc_offset) \div MsPerSec, (ms + utc_offset) % MsPerSec>>

\* The instant an ISO string denotes (what a reader of the file parses back):
\* the trailing 'Z' says the fields are UTC.
Instant(iso) == iso[1] * MsPerSec + iso[2]

\* Python's str comparison on two such strings, a < b.  The date-time prefixes
\* have equal length and compare as the seconds do.  After an equal prefix the
\* next character is '.' (0x2E) when there is a sub-second part and 'Z' (0x5A)
\* when there is none, so a string with a suffix sorts BEFORE the one without.
StrLess(a, b) ==
    \/ a[1] < b[1]
    \/ /\ a[1] = b[1]
       /\ \/ a[2] # 0 /\ b[2] = 0
          \/ a[2] # 0 /\ b[2] # 0 /\ a[2] < b[2]

\* price_data = {'timestamp': ..., 'prices': {symbol: float(candle[4])}}
PricePoint(candle) ==
    [timestamp |-> IsoFormat(candle.ts),
     prices |-> [s \in {symbol} |-> candle.close]]

\* ---------------------------------------------------------------- sorting
\* list.sort(key=lambda x: x['timestamp']): a stable sort on the strings.
\* InsertSorted puts p behind every element that is not greater than it.
RECURSIVE InsertSorted(_, _)
InsertSorted(p, s) ==
    IF s = <<>> THEN <<p>>
    ELSE IF StrLess(p.timestamp, Head(s).timestamp) THEN <<p>> \o s
    ELSE <<Head(s)>> \o InsertSorted(p, Tail(s))

RECURSIVE SortByTimestamp(_)
SortByTimestamp(data) ==
    IF data = <<>> THEN <<>>
    ELSE InsertSorted(data[Len(data)],
                      SortByTimestamp(SubSeq(data, 1, Len(data) - 1)))

\* RemoveDuplicates without `seen_timestamps.add(item['timestamp'])`
RemoveDuplicatesNothingSeen(data, seen_timestamps) == data

\* the loop over all_data with seen_timestamps
RECURSIVE RemoveDuplicates(_, _)
RemoveDuplicates(data, seen_timestamps) ==
    IF data = <<>> THEN <<>>
    ELSE IF Head(data).timestamp \in seen_timestamps
         THEN RemoveDuplicates(Tail(data), seen_timestamps)
         ELSE <<Head(data)>> \o
              RemoveDuplicates(Tail(data),
                               seen_timestamps \cup {Head(data).timestamp})

\* unique_data as the forward fetch returns it
unique_data(data) == RemoveDuplicates(SortByTimestamp(data), {})

\* sentiment: datetime.fromtimestamp(int(item['timestamp'])).isoformat() + 'Z'
\* The argument is a whole number of seconds: the string has no suffix.
IsoFormatSeconds(sec) == <<sec + utc_offset \div MsPerSec, 0>>

SentimentPoint(item) ==
    [timestamp |-> IsoFormatSeconds(item.timestamp),
     value |-> item.value,
     classification |-> item.value_classification]

Reverse(s) == [i \in 1..Len(s) |-> s[Len(s) + 1 - i]]

\* ---------------------------------------------------------------- provider
\* A response page: candles [ts, open, close].  Field 0 is the timestamp,
\* field 4 the close price, field 1 the open price (standing for the fields
\* the scripts do not read).  Close prices are numbered in order of arrival,
\* so that any two candles received from a provider under no contract can be
\* told apart.
Candles(stamps, base) ==
    [i \in 1..Len(stamps) |->
        [ts |-> stamps[i], open |-> 0, close |-> base + i]]

\* the page of an honest provider: a candle held has one close price
HeldCandles(stamps) ==
    [i \in 1..Len(stamps) |->
        [ts |-> stamps[i], open |-> 0, close |-> stamps[i] + 1]]

\* what a provider under no contract may send as a non-empty page
AnyStamps(n) == UNION {[1..k -> Stamps \cup {BadField}] : k \in 1..n}

\* the ascending sequence of a set of stamps
RECURSIVE Ascending(_)
Ascending(S) ==
    IF S = {} THEN <<>>
    ELSE LET m == CHOOSE x \in S : \A y \in S : x <= y
         IN  <<m>> \o Ascending(S \ {m})

FirstN(s, n) == SubSeq(s, 1, Min(n, Len(s)))

\* Binance klines: the oldest candles, at most `limit`, ascending, with open
\* time in [startTime, endTime]
HonestKlines(startTime, endTime) ==
    FirstN(Ascending({t \in held : startTime <= t /\ t <= endTime}),
           max_candles_per_request)

\* OKX candles as the fetch assumes them: the newest candles, at most
\* `limit`, newest first, strictly older than `before`
HonestCandles(before) ==
    FirstN(Reverse(Ascending({t \in held : t < before})), okx_limit)

\* what log keeps of one request: how it was answered ("page", "empty",
\* "error": RequestException, "api_error": an error reported in the body,
\* "exception": a page with a field that raised), the page received, how
\* many of its records were accumulated, and whether a sleep preceded it
Entry(kind, page, added) ==
    [kind |-> kind, page |-> page, added |-> added, slept |-> slept]

\* the non-empty pages received so far
PagesReceived == Cardinality({i \in 1..Len(log) : log[i].page # <<>>})

\* ---------------------------------------------------------------- Binance
\* fetch_binance_historical_data(symbol, days), lines 9-100

\* chunk_end_ms without the min(..., end_ms)
chunk_end_ms_unclamped ==
    current_start_ms + max_candles_per_request * HourMs

\* chunk_end_ms = min(current_start_ms + max_candles_per_request*60*60*1000, end_ms)
chunk_end_ms ==
    Min(current_start_ms + max_candles_per_request * HourMs, end_ms)

\* index of the first candle whose field 0 int() rejects, Len + 1 when none
FirstBad(candles) ==
    IF \E i \in 1..Len(candles) : candles[i].ts = BadField
    THEN CHOOSE i \in 1..Len(candles) :
            /\ candles[i].ts = BadField
            /\ \A j \in 1..(i - 1) : candles[j].ts # BadField
    ELSE Len(candles) + 1

Points(candles) == [i \in 1..Len(candles) |-> PricePoint(candles[i])]

\* current_start_ms = last_candle_time + (60 * 60 * 1000)
NextStartMs(candles) == candles[Len(candles)].ts + HourMs

\* while current_start_ms < end_ms:
BinanceLoop ==
    /\ fn = "binance"
    /\ pc = "loop"
    /\ current_start_ms < end_ms

\* the pages the provider may answer the pending request with
BinancePages ==
    IF provider = "honest"
    THEN {HeldCandles(HonestKlines(current_start_ms, chunk_end_ms))}
    ELSE {Candles(s, received) : s \in AnyStamps(max_candles_per_request)}

\* requests.get / raise_for_status raise RequestException: break, then the
\* sort, the deduplication and the return
BinanceRequestError ==
    /\ BinanceLoop
    /\ provider = "any"
    /\ log' = Append(log, Entry("error", <<>>, 0))
    /\ result' = unique_data(all_data)
    /\ slept' = FALSE
    /\ pc' = "done"
    /\ UNCHANGED <<callVars, okxVars, binanceVars, all_data, received>>

\* `if not candles: break`
BinanceNoData ==
    /\ BinanceLoop
    /\ provider = "honest" => HonestKlines(current_start_ms, chunk_end_ms) = <<>>
    /\ log' = Append(log, Entry("empty", <<>>, 0))
    /\ result' = unique_data(all_data)
    /\ slept' = FALSE
    /\ pc' = "done"
    /\ UNCHANGED <<callVars, okxVars, binanceVars, all_data, received>>

\* a non-empty page: every candle is appended to all_data up to one that
\* raises (caught by `except Exception`: break); without one the cursor moves
\* past the last candle and the loop sleeps
\* (the exploration is cut after MaxPages non-empty pages when the provider
\* is under no contract; with an honest provider the fetch ends by itself)
BinancePage ==
    /\ BinanceLoop
    /\ provider = "any" => PagesReceived < MaxPages
    /\ \E candles \in BinancePages :
        LET bad == FirstBad(candles)
            data == all_data \o Points(SubSeq(candles, 1, bad - 1))
        IN  /\ candles # <<>>
            /\ received' = received + Len(candles)
            /\ all_data' = data
            /\ IF bad <= Len(candles)
               THEN /\ log' = Append(log, Entry("exception", candles, bad - 1))
                    /\ result' = unique_data(data)
                    /\ slept' = FALSE
                    /\ pc' = "done"
                    /\ UNCHANGED current_start_ms
               ELSE /\ log' = Append(log, Entry("page", candles, Len(candles)))
                    /\ current_start_ms' = NextStartMs(candles)
                    /\ slept' = TRUE
                    /\ UNCHANGED <<pc, result>>
    /\ UNCHANGED <<callVars, okxVars, start_ms, end_ms>>

\* the loop condition is false: sort, deduplicate, return
BinanceReturn ==
    /\ fn = "binance"
    /\ pc = "loop"
    /\ ~(current_start_ms < end_ms)
    /\ result' = unique_data(all_data)
    /\ pc' = "done"
    /\ UNCHANGED <<callVars, okxVars, binanceVars, all_data, log, slept, received>>

NextBinance ==
    \/ BinanceRequestError
    \/ BinanceNoData
    \/ BinancePage
    \/ BinanceReturn

\* ---------------------------------------------------------------- OKX
\* fetch_okx_historical_data(symbol, days), lines 50-154

\* ChunkStart without the max(start_ts, ...)
ChunkStartUnclamped(chunk_end) == chunk_end - chunk_hours * HourMs

\* current_start_ts = max(start_ts, current_end_ts - chunk_hours*60*60*1000)
ChunkStart(chunk_end) == Max(start_ts, chunk_end - chunk_hours * HourMs)

\* while current_end_ts > start_ts: the head of one chunk
OkxNextChunk ==
    /\ fn = "okx"
    /\ pc = "outer"
    /\ current_end_ts > start_ts
    /\ current_start_ts' = ChunkStart(current_end_ts)
    /\ chunk_data' = <<>>
    /\ current_ts' = current_end_ts
    /\ chunks' = Append(chunks, [lo |-> ChunkStart(current_end_ts),
                                 hi |-> current_end_ts,
                                 first |-> Len(log) + 1])
    /\ pc' = "inner"
    /\ UNCHANGED <<callVars, start_ts, end_ts, current_end_ts, binanceVars,
                   all_data, result, log, slept, received>>

\* InnerCondition without `len(chunk_data) < chunk_hours`
InnerConditionCursorOnly == current_ts > current_start_ts

\* while current_ts > current_start_ts and len(chunk_data) < chunk_hours:
InnerCondition ==
    current_ts > current_start_ts /\ Len(chunk_data) < chunk_hours

OkxInner ==
    /\ fn = "okx"
    /\ pc = "inner"
    /\ InnerCondition

\* InterChunkPause without the time.sleep(2)
InterChunkPauseNever == FALSE

\* `if current_end_ts > start_ts: time.sleep(2)`, with current_end_ts already
\* set to current_start_ts
InterChunkPause == current_start_ts > start_ts

\* after the inner loop, however it was left: all_data.extend(chunk_data),
\* current_end_ts = current_start_ts, and the pause when a chunk is left;
\* slept_before: a sleep ran since the last request when the loop was left
EndChunk(chunk, slept_before) ==
    /\ chunk_data' = chunk
    /\ all_data' = all_data \o chunk
    /\ current_end_ts' = current_start_ts
    /\ slept' = (slept_before \/ InterChunkPause)
    /\ pc' = "outer"
    /\ UNCHANGED <<callVars, start_ts, end_ts, current_start_ts, current_ts,
                   chunks, binanceVars, result>>

\* ScanStop without the `if timestamp < current_start_ts: break`
ScanStopUnbounded(candles, lower) == FirstBad(candles)

\* ScanStop with `timestamp <= current_start_ts` for the break
ScanStopInclusive(candles, lower) ==
    IF \E i \in 1..Len(candles) :
          candles[i].ts = BadField \/ candles[i].ts <= lower
    THEN CHOOSE i \in 1..Len(candles) :
            /\ candles[i].ts = BadField \/ candles[i].ts <= lower
            /\ \A j \in 1..(i - 1) :
                  candles[j].ts # BadField /\ candles[j].ts > lower
    ELSE Len(candles) + 1

\* index of the first candle at which the scan of a page stops: its field 0
\* is rejected by int(), or `timestamp < current_start_ts`; Len + 1 when none
ScanStop(candles, lower) ==
    IF \E i \in 1..Len(candles) :
          candles[i].ts = BadField \/ candles[i].ts < lower
    THEN CHOOSE i \in 1..Len(candles) :
            /\ candles[i].ts = BadField \/ candles[i].ts < lower
            /\ \A j \in 1..(i - 1) :
                  candles[j].ts # BadField /\ candles[j].ts >= lower
    ELSE Len(candles) + 1

\* the pages the provider may answer the pending request with
OkxPages ==
    IF provider = "honest"
    THEN {HeldCandles(HonestCandles(current_ts))}
    ELSE {Candles(s, received) : s \in AnyStamps(okx_limit)}

\* requests.get / raise_for_status raise RequestException: break
OkxRequestError ==
    /\ OkxInner
    /\ provider = "any"
    /\ log' = Append(log, Entry("error", <<>>, 0))
    /\ EndChunk(chunk_data, FALSE)
    /\ UNCHANGED received

\* data['code'] != '0': break
OkxApiError ==
    /\ OkxInner
    /\ provider = "any"
    /\ log' = Append(log, Entry("api_error", <<>>, 0))
    /\ EndChunk(chunk_data, FALSE)
    /\ UNCHANGED received

\* `if not data['data']: break`
OkxNoData ==
    /\ OkxInner
    /\ provider = "honest" => HonestCandles(current_ts) = <<>>
    /\ log' = Append(log, Entry("empty", <<>>, 0))
    /\ EndChunk(chunk_data, FALSE)
    /\ UNCHANGED received

\* a non-empty page: the scan appends candles to chunk_data until it stops;
\* an exception (caught by `except Exception`), or no candle added, leaves the
\* inner loop; otherwise current_ts = int(candles[-1][0]) and the loop sleeps
\* (the exploration is cut after MaxPages non-empty pages when the provider
\* is under no contract; with an honest provider the fetch ends by itself)
OkxPage ==
    /\ OkxInner
    /\ provider = "any" => PagesReceived < MaxPages
    /\ \E candles \in OkxPages :
        LET stop == ScanStop(candles, current_start_ts)
            added_in_batch == stop - 1
            chunk == chunk_data \o Points(SubSeq(candles, 1, added_in_batch))
            raised == \/ stop <= Len(candles) /\ candles[stop].ts = BadField
                      \/ added_in_batch > 0 /\ candles[Len(candles)].ts = BadField
        IN  /\ candles # <<>>
            /\ received' = received + Len(candles)
            /\ IF raised
               THEN /\ log' = Append(log, Entry("exception", candles, added_in_batch))
                    /\ EndChunk(chunk, FALSE)
               ELSE IF added_in_batch = 0
               THEN /\ log' = Append(log, Entry("page", candles, 0))
                    /\ EndChunk(chunk, FALSE)
               ELSE /\ log' = Append(log, Entry("page", candles, added_in_batch))
                    /\ chunk_data' = chunk
                    /\ current_ts' = candles[Len(candles)].ts
                    /\ slept' = TRUE
                    /\ UNCHANGED <<callVars, start_ts, end_ts, current_end_ts,
                                   current_start_ts, chunks, binanceVars,
                                   all_data, result, pc>>

\* the inner loop's condition is false
OkxChunkDone ==
    /\ fn = "okx"
    /\ pc = "inner"
    /\ ~InnerCondition
    /\ EndChunk(chunk_data, slept)
    /\ UNCHANGED <<log, received>>

\* the outer loop's condition is false: all_data.sort(...), return all_data
OkxReturn ==
    /\ fn = "okx"
    /\ pc = "outer"
    /\ ~(current_end_ts > start_ts)
    /\ result' = SortByTimestamp(all_data)
    /\ pc' = "done"
    /\ UNCHANGED <<callVars, okxVars, binanceVars, all_data, log, slept,
                   received>>

NextOkx ==
    \/ OkxNextChunk
    \/ OkxRequestError
    \/ OkxApiError
    \/ OkxNoData
    \/ OkxPage
    \/ OkxChunkDone
    \/ OkxReturn

\* ---------------------------------------------------------------- windows
\* the default of --symbols.  Where the provider is under no contract
\* (InitOkx, InitBinance) the call is for the first of them on a machine that
\* runs on UTC: the symbol only labels the prices and the local offset shifts
\* every timestamp alike; both vary in InitHonest, the offset in
\* InitSentiment too.
Symbols == {"BTC", "SOL"}

\* the machine runs on UTC, or one hour ahead of it
UtcOffsets == {0, HourMs}

\* one call of a fetch function: main is not running
InitCall ==
    /\ symbols = <<>> /\ fetched = <<>> /\ files = <<>>
    /\ chunks = <<>>

\* end_time = now, start_time = end_time - days: the window of the general
\* specifications starts at tick 1 (so that a stamp lies before it) and ends
\* at the last stamp or two ticks before it
Windows == {<<1, MaxStamp>>, <<1, MaxStamp - 2>>}

InitBinance ==
    /\ fn = "binance"
    /\ symbol = "BTC"
    /\ utc_offset = 0
    /\ InitCall
    /\ provider = "any"
    /\ pc = "loop"
    /\ held = {}
    /\ \E w \in Windows :
        /\ start_ms = w[1] /\ end_ms = w[2] /\ current_start_ms = w[1]
    /\ start_ts = 0 /\ end_ts = 0 /\ current_end_ts = 0
    /\ current_start_ts = 0 /\ current_ts = 0 /\ chunk_data = <<>>
    /\ all_data = <<>> /\ result = <<>> /\ log = <<>>
    /\ slept = FALSE /\ received = 0

SpecBinance == InitBinance /\ [][NextBinance]_vars

InitOkx ==
    /\ fn = "okx"
    /\ symbol = "BTC"
    /\ utc_offset = 0
    /\ InitCall
    /\ provider = "any"
    /\ pc = "outer"
    /\ held = {}
    /\ \E w \in Windows :
        /\ start_ts = w[1] /\ end_ts = w[2] /\ current_end_ts = w[2]
    /\ current_start_ts = 0 /\ current_ts = 0 /\ chunk_data = <<>>
    /\ start_ms = 0 /\ end_ms = 0 /\ current_start_ms = 0
    /\ all_data = <<>> /\ result = <<>> /\ log = <<>>
    /\ slept = FALSE /\ received = 0

SpecOkx == InitOkx /\ [][NextOkx]_vars

\* one call of either price fetcher
InitPrices == InitOkx \/ InitBinance

NextPrices == NextOkx \/ NextBinance

SpecPrices == InitPrices /\ [][NextPrices]_vars


\* ---------------------------------------------------------------- sentiment
\* fetch_fear_greed_data(days) of either script

\* data['data'] as the provider may send it: at most MaxItems items, whose
\* timestamps are whole seconds; value and value_classification are numbered
\* by the item's place in the response
FearGreedItems(stamps) ==
    [i \in 1..Len(stamps) |->
        [timestamp |-> stamps[i], value |-> i, value_classification |-> i]]

AnyItems == UNION {[1..k -> 0..MaxItems] : k \in 0..MaxItems}

\* fetch_historical_data.py: the list is returned in the provider's order
fear_greed_data_okx(items) ==
    [i \in 1..Len(items) |-> SentimentPoint(items[i])]

\* fetch_historical_data_binance.py: fear_greed_data.reverse()
fear_greed_data_binance(items) ==
    Reverse([i \in 1..Len(items) |-> SentimentPoint(items[i])])

FearGreedCall == fn \in {"fg_okx", "fg_binance"} /\ pc = "call"

\* the request succeeds and the body holds a 'data' list
FearGreedOk ==
    /\ FearGreedCall
    /\ \E stamps \in AnyItems :
        /\ log' = Append(log, Entry("page", FearGreedItems(stamps), Len(stamps)))
        /\ result' = IF fn = "fg_okx"
                     THEN fear_greed_data_okx(FearGreedItems(stamps))
                     ELSE fear_greed_data_binance(FearGreedItems(stamps))
    /\ pc' = "done"
    /\ UNCHANGED <<callVars, okxVars, binanceVars, all_data, slept, received>>

\* except requests.RequestException: return []
FearGreedRequestError ==
    /\ FearGreedCall
    /\ log' = Append(log, Entry("error", <<>>, 0))
    /\ result' = <<>>
    /\ pc' = "done"
    /\ UNCHANGED <<callVars, okxVars, binanceVars, all_data, slept, received>>

\* the body is JSON without a 'data' key (the provider reports an error in
\* its body): data['data'] raises KeyError, which is no RequestException and
\* leaves the function
FearGreedKeyError ==
    /\ FearGreedCall
    /\ log' = Append(log, Entry("api_error", <<>>, 0))
    /\ pc' = "raised"
    /\ UNCHANGED <<callVars, okxVars, binanceVars, all_data, result, slept,
                   received>>

NextSentiment ==
    \/ FearGreedOk
    \/ FearGreedRequestError
    \/ FearGreedKeyError

InitSentiment ==
    /\ fn \in {"fg_okx", "fg_binance"}
    /\ symbol = ""
    /\ utc_offset \in UtcOffsets
    /\ InitCall
    /\ provider = "any"
    /\ pc = "call"
    /\ held = {}
    /\ start_ts = 0 /\ end_ts = 0 /\ current_end_ts = 0
    /\ current_start_ts = 0 /\ current_ts = 0 /\ chunk_data = <<>>
    /\ start_ms = 0 /\ end_ms = 0 /\ current_start_ms = 0
    /\ all_data = <<>> /\ result = <<>> /\ log = <<>>
    /\ slept = FALSE /\ received = 0

SpecSentiment == InitSentiment /\ [][NextSentiment]_vars

\* ---------------------------------------------------------------- honest provider
\* every window inside the stamps
AllWindows == {w \in Stamps \X Stamps : w[1] < w[2]}

\* the 1h klines of Binance open on whole hours
HourAligned == {t \in Stamps : t % HourMs = 0}

\* the candles held: Binance 1h klines open on whole hours; for OKX any set
\* of stamps (HourSpaced tells the sets a candle series of bar 1D, 1H, ...
\* can be from the others)
InitHonest ==
    /\ fn \in {"okx", "binance"}
    /\ symbol \in Symbols
    /\ utc_offset \in UtcOffsets
    /\ InitCall
    /\ provider = "honest"
    /\ pc = IF fn = "okx" THEN "outer" ELSE "loop"
    /\ held \in IF fn = "okx" THEN SUBSET Stamps ELSE SUBSET HourAligned
    /\ \E w \in AllWindows :
        /\ start_ts = IF fn = "okx" THEN w[1] ELSE 0
        /\ end_ts = IF fn = "okx" THEN w[2] ELSE 0
        /\ current_end_ts = end_ts
        /\ start_ms = IF fn = "binance" THEN w[1] ELSE 0
        /\ end_ms = IF fn = "binance" THEN w[2] ELSE 0
        /\ current_start_ms = start_ms
    /\ current_start_ts = 0 /\ current_ts = 0 /\ chunk_data = <<>>
    /\ all_data = <<>> /\ result = <<>> /\ log = <<>>
    /\ slept = FALSE /\ received = 0

NextHonest ==
    \/ BinanceNoData
    \/ BinancePage
    \/ BinanceReturn
    \/ OkxNextChunk
    \/ OkxNoData
    \/ OkxPage
    \/ OkxChunkDone
    \/ OkxReturn

SpecHonest == InitHonest /\ [][NextHonest]_vars

\* ---------------------------------------------------------------- main
\* main() of either script: the loop over args.symbols, then the sentiment

\* most symbols on the command line (nargs='+': at least one)
MaxSymbols == 2

\* the symbols a user may pass; two of them differ in case only
MainSymbols == {"BTC", "btc", "SOL"}

\* symbol.lower()
Lower(s) == IF s = "BTC" THEN "btc" ELSE IF s = "SOL" THEN "sol" ELSE s

\* f"../backtest-data/{symbol.lower()}_prices_{args.days}d.json"
PriceFile(s) == <<Lower(s), "prices">>

\* f"../backtest-data/fear_greed_{args.days}d.json"
FearGreedFile == <<"fear_greed">>

\* `if price_data:`, `if fear_greed_data:` -- a list is true when not empty
HasDataAlways(data) == TRUE

HasData(data) == data # <<>>

\* open(filename, 'w') and json.dump(data, f): the file holds data
Written(name, data) ==
    [n \in DOMAIN files \cup {name} |-> IF n = name THEN data ELSE files[n]]

\* what the price fetch of the script may return to main: nothing, or the
\* points of a page, sorted (and deduplicated by the forward fetch)
MainPages == {<<>>} \cup [1..1 -> Stamps]

PriceData ==
    {IF fn = "main_okx" THEN SortByTimestamp(Points(Candles(s, 0)))
                        ELSE unique_data(Points(Candles(s, 0))) :
        s \in MainPages}

\* what fetch_fear_greed_data may return to main
FearGreedData ==
    {IF fn = "main_okx" THEN fear_greed_data_okx(FearGreedItems(s))
                        ELSE fear_greed_data_binance(FearGreedItems(s)) :
        s \in {<<>>} \cup [1..1 -> 0..MaxItems]}

Main == fn \in {"main_okx", "main_binance"}

\* what main leaves alone in every step
mainIdle == <<fn, utc_offset, provider, held, okxVars, binanceVars, all_data,
              log, slept, received, symbols>>

\* for symbol in args.symbols:
MainNextSymbol ==
    /\ Main /\ pc = "symbols"
    /\ Len(fetched) < Len(symbols)
    /\ symbol' = symbols[Len(fetched) + 1]
    /\ pc' = "body"
    /\ UNCHANGED <<mainIdle, fetched, files, result>>

\* price_data is not empty and the file is written: "Saved ... price points"
MainPriceSaved ==
    /\ Main /\ pc = "body"
    /\ \E price_data \in PriceData :
        /\ HasData(price_data)
        /\ files' = Written(PriceFile(symbol), price_data)
        /\ fetched' = Append(fetched, [symbol |-> symbol,
                                       price_data |-> price_data,
                                       printed |-> "Saved"])
    /\ pc' = "symbols"
    /\ UNCHANGED <<mainIdle, symbol, result>>

\* price_data is not empty and open() raises (no ../backtest-data directory
\* under the working directory, no permission): nothing catches it
MainPriceWriteError ==
    /\ Main /\ pc = "body"
    /\ \E price_data \in PriceData :
        /\ HasData(price_data)
        /\ fetched' = Append(fetched, [symbol |-> symbol,
                                       price_data |-> price_data,
                                       printed |-> "Traceback"])
    /\ pc' = "raised"
    /\ UNCHANGED <<mainIdle, symbol, files, result>>

\* else: "No data fetched for {symbol}"
MainNoData ==
    /\ Main /\ pc = "body"
    /\ \E price_data \in PriceData :
        /\ ~HasData(price_data)
        /\ fetched' = Append(fetched, [symbol |-> symbol,
                                       price_data |-> price_data,
                                       printed |-> "No data fetched"])
    /\ pc' = "symbols"
    /\ UNCHANGED <<mainIdle, symbol, files, result>>

\* after the loop: fetch_fear_greed_data(args.days)
MainSentiment == Main /\ pc = "symbols" /\ Len(fetched) = Len(symbols)

\* fear_greed_data is not empty and the file is written
MainFearGreedSaved ==
    /\ MainSentiment
    /\ \E fear_greed_data \in FearGreedData :
        /\ HasData(fear_greed_data)
        /\ result' = fear_greed_data
        /\ files' = Written(FearGreedFile, fear_greed_data)
    /\ pc' = "done"
    /\ UNCHANGED <<mainIdle, symbol, fetched>>

\* fear_greed_data is not empty and open() raises
MainFearGreedWriteError ==
    /\ MainSentiment
    /\ \E fear_greed_data \in FearGreedData :
        /\ HasData(fear_greed_data)
        /\ result' = fear_greed_data
    /\ pc' = "raised"
    /\ UNCHANGED <<mainIdle, symbol, fetched, files>>

\* fear_greed_data is empty (no item, or the [] of a RequestException)
MainFearGreedNoData ==
    /\ MainSentiment
    /\ \E fear_greed_data \in FearGreedData :
        /\ ~HasData(fear_greed_data)
        /\ result' = fear_greed_data
    /\ pc' = "done"
    /\ UNCHANGED <<mainIdle, symbol, fetched, files>>

\* fetch_fear_greed_data raises (FearGreedKeyError): main does not catch it
MainFearGreedRaised ==
    /\ MainSentiment
    /\ pc' = "raised"
    /\ UNCHANGED <<mainIdle, symbol, fetched, files, result>>

NextMain ==
    \/ MainNextSymbol
    \/ MainPriceSaved
    \/ MainPriceWriteError
    \/ MainNoData
    \/ MainFearGreedSaved
    \/ MainFearGreedWriteError
    \/ MainFearGreedNoData
    \/ MainFearGreedRaised

InitMain ==
    /\ fn \in {"main_okx", "main_binance"}
    /\ symbol = ""
    /\ utc_offset = 0
    /\ symbols \in UNION {[1..k -> MainSymbols] : k \in 1..MaxSymbols}
    /\ fetched = <<>> /\ files = <<>>
    /\ provider = "any"
    /\ pc = "symbols"
    /\ held = {}
    /\ start_ts = 0 /\ end_ts = 0 /\ current_end_ts = 0
    /\ current_start_ts = 0 /\ current_ts = 0 /\ chunk_data = <<>>
    /\ chunks = <<>>
    /\ start_ms = 0 /\ end_ms = 0 /\ current_start_ms = 0
    /\ all_data = <<>> /\ result = <<>> /\ log = <<>>
    /\ slept = FALSE /\ received = 0

SpecMain == InitMain /\ [][NextMain]_vars

\* ---------------------------------------------------------------- claims
\* helpers of the formulas below
Failed(kind) == kind \in {"error", "api_error"}
PointSet(data) == {data[i] : i \in 1..Len(data)}
TimestampsOf(data) == {data[i].timestamp : i \in 1..Len(data)}
Returned == pc = "done"
PriceFetch == fn \in {"okx", "binance"}
\* the records the fetch took from the page of request i
GatheredAt(i) == Points(SubSeq(log[i].page, 1, log[i].added))
\* the candles of [lo, hi] that an honest provider holds
HeldInWindow(lo, hi) == {t \in held : lo <= t /\ t <= hi}
\* a sequence of points in the order of the instants their timestamps denote
Chronological(data) ==
    \A i, j \in 1..Len(data) :
        i < j => Instant(data[i].timestamp) <= Instant(data[j].timestamp)

\* C1: when the first request succeeds and the second fails (transport or a
\* status reported by the provider), the fetch returns exactly the records
\* gathered from the first request.
C1_SecondRequestFails ==
    (/\ Returned /\ PriceFetch
     /\ Len(log) >= 2
     /\ log[1].kind = "page"
     /\ Failed(log[2].kind))
    => PointSet(result) = PointSet(GatheredAt(1))

\* C2: a failed request ends the fetch: it is the last request of the call
\* (no retry, no other page, no other chunk).
C2_FailureIsLastRequest ==
    PriceFetch =>
        \A i \in 1..Len(log) : Failed(log[i].kind) => i = Len(log)

NewestFirst(items) ==
    \A i, j \in 1..Len(items) :
        i < j => items[i].timestamp > items[j].timestamp

\* C3: when the provider sends its items newest first, the sentiment points
\* returned are in ascending order of timestamp, in either script.
C3_SentimentAscending ==
    (/\ Returned
     /\ fn \in {"fg_okx", "fg_binance"}
     /\ log[1].kind = "page"
     /\ NewestFirst(log[1].page))
    => Chronological(result)

\* the records of the window, when they are one page: at least one, fewer
\* than the page size, and all of them in the first response
WindowRecords ==
    IF fn = "okx" THEN HeldInWindow(start_ts, end_ts - 1)
    ELSE HeldInWindow(start_ms, end_ms)

PageSize == IF fn = "okx" THEN okx_limit ELSE max_candles_per_request

OnePageWindow ==
    /\ PriceFetch /\ provider = "honest"
    /\ WindowRecords # {}
    /\ Cardinality(WindowRecords) < PageSize
    /\ Len(log) >= 1
    /\ WindowRecords \subseteq {log[1].page[i].ts : i \in 1..Len(log[1].page)}

\* C4: when the window holds one page of records and the first response
\* carries them all, the fetch issues exactly one request and returns them.
C4_OnePageOneRequest ==
    (Returned /\ OnePageWindow) =>
        /\ Len(log) = 1
        /\ \A t \in WindowRecords : IsoFormat(t) \in TimestampsOf(result)

LastOpenTime(page) == page[Len(page)].ts

\* chunks the window [start_ts, end_ts) has: its length over the chunk
\* length, rounded up
ChunkCount ==
    (end_ts - start_ts + chunk_hours * HourMs - 1) \div (chunk_hours * HourMs)

\* C4 amended: with a provider that keeps its paging contract, the fetch
\* returns the records of a one-page window, all of them and nothing else;
\* the forward fetch issues one request when the last candle's open time plus
\* one hour reaches the window end and otherwise a second one, answered
\* empty; the backward fetch issues at least one request for every chunk.
C4_OnePageAllReturned ==
    (Returned /\ OnePageWindow) =>
        /\ TimestampsOf(result) = {IsoFormat(t) : t \in WindowRecords}
        /\ fn = "binance" =>
              /\ Len(log) <= 2
              /\ Len(log) = 1 <=> LastOpenTime(log[1].page) + HourMs >= end_ms
              /\ Len(log) = 2 => log[2].kind = "empty"
        /\ fn = "okx" => Len(log) >= ChunkCount

\* C4 witness: a one-page window for which the fetch needed more than one
\* request and returned the records
C4_Witness ==
    /\ Returned /\ OnePageWindow
    /\ Len(log) > 1
    /\ Len(result) = Cardinality(WindowRecords)

\* C5: the sequence a price fetcher returns is non-decreasing in timestamp,
\* whatever the provider answered.
C5_ResultNonDecreasing ==
    (Returned /\ PriceFetch) => Chronological(result)

FirstArrived(ts) ==
    all_data[CHOOSE k \in 1..Len(all_data) :
                /\ all_data[k].timestamp = ts
                /\ \A m \in 1..(k - 1) : all_data[m].timestamp # ts]

\* C6: the forward fetch never returns two points with the same timestamp,
\* every timestamp accumulated is returned, and of the points that share a
\* timestamp the one kept is the first of them in the sorted accumulation
\* (the sort is stable: the first of them to arrive).
C6_BinanceNoDuplicateTimestamps ==
    (Returned /\ fn = "binance") =>
        /\ \A i, j \in 1..Len(result) :
              result[i].timestamp = result[j].timestamp => i = j
        /\ TimestampsOf(result) = TimestampsOf(all_data)
        /\ \A i \in 1..Len(result) :
              result[i] = FirstArrived(result[i].timestamp)

\* C6 witness: a fetch returned after a second page repeated a timestamp of
\* the first page, with two or more points dropped as duplicates
C6_Witness ==
    /\ Returned /\ fn = "binance"
    /\ Len(log) >= 2
    /\ \E i \in 1..log[1].added, j \in (log[1].added + 1)..Len(all_data) :
          all_data[i].timestamp = all_data[j].timestamp
    /\ Len(result) < Len(all_data) - 1

\* C7: the result of the backward fetch holds at most one point per timestamp.
C7_OkxOnePointPerTimestamp ==
    (Returned /\ fn = "okx") =>
        \A i, j \in 1..Len(result) :
            result[i].timestamp = result[j].timestamp => i = j

\* C8: with an honest provider the forward fetch returns every candle held
\* with open time in [window start, window end], gaps or not.
C8_BinanceCoversWindow ==
    (Returned /\ fn = "binance" /\ provider = "honest") =>
        \A t \in HeldInWindow(start_ms, end_ms) :
            IsoFormat(t) \in TimestampsOf(result)

\* C9: with an honest provider the backward fetch returns every candle held
\* with timestamp in [window start, window end).
C9_OkxCoversWindow ==
    (Returned /\ fn = "okx" /\ provider = "honest") =>
        \A t \in HeldInWindow(start_ts, end_ts - 1) :
            IsoFormat(t) \in TimestampsOf(result)

\* candles at least an hour apart, as the candles of one bar size are
HourSpaced(S) == \A a, b \in S : a < b => b - a >= HourMs

\* C9 amended: ... provided the candles held are at least one hour apart (so
\* that no chunk of chunk_hours hours holds more than chunk_hours candles).
C9_OkxCoversWindowHourSpaced ==
    (Returned /\ fn = "okx" /\ provider = "honest" /\ HourSpaced(held)) =>
        \A t \in HeldInWindow(start_ts, end_ts - 1) :
            IsoFormat(t) \in TimestampsOf(result)

\* C9 witness: a window of more than one chunk, a candle exactly at the
\* window start, and a page of which the scan dropped the older candles
C9_Witness ==
    /\ Returned /\ fn = "okx" /\ provider = "honest" /\ HourSpaced(held)
    /\ end_ts - start_ts > chunk_hours * HourMs
    /\ start_ts \in held
    /\ Cardinality(HeldInWindow(start_ts, end_ts - 1)) >= 2
    /\ \E i \in 1..Len(log) :
          log[i].added > 0 /\ log[i].added < Len(log[i].page)

\* C10: no fetch function lets an exception reach its caller.
C10_NoExceptionPropagates == pc # "raised"

\* the symbols main has handled whose price file was written
SavedAt(k) == fetched[k].printed = "Saved"
\* main is past the sentiment fetch, which returned its list
SentimentReturned ==
    Main /\ (pc = "done" \/ (pc = "raised" /\ result # <<>>))

C12_SleepBetweenRequests ==
    PriceFetch => \A i \in 2..Len(log) : log[i].slept

\* a request that left the inner loop (error, empty page, page that added
\* nothing, page that raised) and a later request
C12_Witness ==
    /\ fn = "okx"
    /\ Len(log) >= 3
    /\ Failed(log[1].kind)
    /\ log[2].kind = "page" /\ log[2].added > 0
    /\ log[3].kind = "exception"

\* the candles the fetch has accepted so far, in the order it accepted them
RECURSIVE AcceptedUpTo(_)
AcceptedUpTo(n) ==
    IF n = 0 THEN <<>>
    ELSE AcceptedUpTo(n - 1) \o SubSeq(log[n].page, 1, log[n].added)
\* the points the fetch has emitted so far, in the order it emitted them
Emitted ==
    IF fn = "okx" /\ pc = "inner" THEN all_data \o chunk_data ELSE all_data

\* C13: the point emitted for an accepted candle carries exactly the
\* candle's timestamp (field 0) and its close price (field 4) under the
\* requested symbol, and nothing else of the candle.
C13_PointIsTimestampAndClose ==
    PriceFetch =>
        LET accepted == AcceptedUpTo(Len(log))
        IN  /\ Len(Emitted) = Len(accepted)
            /\ \A k \in 1..Len(accepted) :
                  /\ DOMAIN Emitted[k] = {"timestamp", "prices"}
                  /\ Instant(Emitted[k].timestamp) = accepted[k].ts
                  /\ DOMAIN Emitted[k].prices = {symbol}
                  /\ Emitted[k].prices[symbol] = accepted[k].close

\* C14: the chunks of the backward fetch partition the window: the first
\* ends at the window end, each later one ends where the one before starts,
\* each spans more than zero and at most chunk_hours hours, none starts
\* before the window start, the last starts exactly there; and the fetch goes
\* on to the next older chunk whatever ended the current one.
C14_ChunksPartitionWindow ==
    fn = "okx" =>
        /\ chunks # <<>> => chunks[1].hi = end_ts
        /\ \A k \in 2..Len(chunks) : chunks[k].hi = chunks[k - 1].lo
        /\ \A k \in 1..Len(chunks) :
              /\ chunks[k].lo < chunks[k].hi
              /\ chunks[k].hi - chunks[k].lo <= chunk_hours * HourMs
              /\ chunks[k].lo >= start_ts
        /\ pc = "inner" => current_start_ts = chunks[Len(chunks)].lo
        /\ (pc = "outer" /\ chunks # <<>>)
              => current_end_ts = chunks[Len(chunks)].lo
        /\ Returned
              => /\ Len(chunks) = ChunkCount
                 /\ chunks[Len(chunks)].lo = start_ts

\* a fetch that returned after two chunks, the first left by a failed
\* request and the second by an empty page
C14_Witness ==
    /\ fn = "okx" /\ Returned
    /\ Len(chunks) = 2
    /\ Len(log) = 2
    /\ Failed(log[1].kind)
    /\ log[2].kind = "empty"

\* the chunk that request i of the backward fetch was issued for
ChunkOf(i) ==
    CHOOSE k \in 1..Len(chunks) :
        /\ chunks[k].first <= i
        /\ k < Len(chunks) => chunks[k + 1].first > i
\* the number of requests issued for chunk k so far, and their places in log
RequestsIn(k) ==
    (IF k < Len(chunks) THEN chunks[k + 1].first ELSE Len(log) + 1)
        - chunks[k].first
RequestsOf(k) == chunks[k].first..(chunks[k].first + RequestsIn(k) - 1)
\* the records taken by requests j..(i - 1)
RECURSIVE HeldBefore(_, _)
HeldBefore(i, j) ==
    IF j >= i THEN 0 ELSE log[j].added + HeldBefore(i, j + 1)

\* C15: in the backward fetch the scan of a page takes the records up to
\* the first one older than the chunk's lower bound and none after it, in
\* the chunk's range or not, without reporting an error; and a chunk gets
\* another request only after a page that added records, while the cursor
\* is above the lower bound and the chunk holds fewer than chunk_hours
\* records.  So a record the provider returned inside the chunk's range can
\* be absent from the result (the witness).
C15_ScanStopsAtFirstOlder ==
    fn = "okx" =>
        \A c \in 1..Len(chunks) : \A i \in RequestsOf(c) :
            LET page == log[i].page
                added == log[i].added
                lo == chunks[c].lo
            IN  /\ \A k \in 1..added : page[k].ts >= lo
                /\ added < Len(page)
                      => (page[added + 1].ts < lo \/ page[added + 1].ts = BadField)
                /\ log[i].kind = "exception"
                      => \E k \in 1..Len(page) : page[k].ts = BadField
                /\ i > chunks[c].first
                      => /\ log[i - 1].kind = "page" /\ log[i - 1].added > 0
                         /\ log[i - 1].page[Len(log[i - 1].page)].ts > lo
                         /\ HeldBefore(i, chunks[c].first) < chunk_hours

\* a fetch that met no error and returned without a record that a page
\* held inside the range of the chunk being fetched
C15_Witness ==
    /\ fn = "okx" /\ Returned
    /\ \A i \in 1..Len(log) : log[i].kind \in {"page", "empty"}
    /\ \E i \in 1..Len(log) : \E k \in 1..Len(log[i].page) :
          /\ k > log[i].added
          /\ log[i].page[k].ts >= chunks[ChunkOf(i)].lo
          /\ log[i].page[k].ts < chunks[ChunkOf(i)].hi
          /\ IsoFormat(log[i].page[k].ts) \notin TimestampsOf(result)

\* C16: on every successful non-empty page of the forward fetch the cursor
\* current_start_ms strictly increases (so that the fetch returns after
\* finitely many requests whatever the provider sends).
C16_CursorIncreases ==
    [][(/\ fn = "binance"
        /\ Len(log') = Len(log) + 1
        /\ log'[Len(log')].kind = "page")
       => current_start_ms' > current_start_ms]_vars

\* C17: the backward fetch ends after a bounded number of requests: a
\* request that is not the last of its chunk added at least one record, a
\* chunk gets at most chunk_hours requests, there are never more chunks than
\* the window length divided by chunk_hours hours, rounded up, and exactly
\* that many when the fetch returns; until it returns it is at the head of
\* one of its two loops, where a step is always possible.
C17_BoundedRequests ==
    fn = "okx" =>
        /\ \A k \in 1..Len(chunks) : \A i \in RequestsOf(k) :
              (i + 1) \in RequestsOf(k)
                  => (log[i].kind = "page" /\ log[i].added >= 1)
        /\ \A k \in 1..Len(chunks) : RequestsIn(k) <= chunk_hours
        /\ Len(chunks) <= ChunkCount
        /\ Len(log) <= chunk_hours * ChunkCount
        /\ Returned => Len(chunks) = ChunkCount
        /\ ~Returned => pc \in {"outer", "inner"}

\* a chunk that got chunk_hours requests, each adding one record, and was
\* left with the cursor still above its lower bound
C17_Witness ==
    /\ fn = "okx" /\ Returned
    /\ RequestsIn(1) = chunk_hours
    /\ \A i \in 1..chunk_hours : log[i].kind = "page" /\ log[i].added = 1
    /\ log[chunk_hours].page[Len(log[chunk_hours].page)].ts > chunks[1].lo

\* C18: every point the backward fetch holds or returns has a timestamp at
\* or after the window start, whatever the pages hold, and no record older
\* than the lower bound of the chunk being fetched is accumulated.
C18_NothingBeforeWindowStart ==
    fn = "okx" =>
        /\ \A p \in PointSet(Emitted) \cup PointSet(result) :
              Instant(p.timestamp) >= Instant(IsoFormat(start_ts))
        /\ \A c \in 1..Len(chunks) : \A i \in RequestsOf(c) :
              \A k \in 1..log[i].added : log[i].page[k].ts >= chunks[c].lo
        /\ pc = "inner"
              => \A p \in PointSet(chunk_data) :
                    Instant(p.timestamp) >= Instant(IsoFormat(current_start_ts))

\* a fetch that was sent a record older than the window start and one older
\* than the second chunk's lower bound but inside the window, and returned
\* points
C18_Witness ==
    /\ fn = "okx" /\ Returned
    /\ result # <<>>
    /\ \E i \in 1..Len(log) : \E k \in 1..Len(log[i].page) :
          log[i].page[k].ts # BadField /\ log[i].page[k].ts < start_ts
    /\ Len(chunks) = 2
    /\ \E i \in RequestsOf(1) : \E k \in 1..Len(log[i].page) :
          /\ log[i].page[k].ts >= start_ts
          /\ log[i].page[k].ts < chunks[1].lo

====
